---- MODULE Spec2Model ----
(***************************************************************************)
(* Model of the documentation checkers of scripts/:                       *)
(*   code_fence_check.py   the fence scanner (find_missing_language_tags) *)
(*   doc_link_check.py     the link resolver (resolve_candidate) and its  *)
(*                         caller (find_broken_links)                     *)
(*   docs_filename_check.py  the naming policy (analyze_file)             *)
(* Text is modelled by TLA+ strings, read character by character with     *)
(* Len, SubSeq and \o, so that the regular expressions, strip(), lower()  *)
(* and the os.path functions are computed as the code computes them.      *)
(* A line is modelled without its terminating newline.                    *)
(***************************************************************************)
EXTENDS Integers, Sequences, FiniteSets, TLC

VARIABLES
    \* code_fence_check.py
    pc,                \* position of find_missing_language_tags / main
    root_is_dir,       \* os.path.isdir(docs_root)
    fidx,              \* number of file names the walk has taken so far
    results,           \* the mapping path -> list of (line number, text)
    in_block, block_fence_char, block_fence_seq, block_open_line,
    lineno,            \* enumerate(fh, start=1)
    lines,             \* the lines of the current file read so far
    nread,             \* lines read in the whole run (bounded by MaxLines)
    exit_code,         \* what main returns (-1: not returned yet)
    \* doc_link_check.py
    dirs, files,       \* the file system: existing directories and files
    lpc,               \* position of find_broken_links / resolve_candidate
    sidx,              \* number of files the walk has taken so far
    broken,            \* the list of (source, text, target, resolved)
    nlinks,            \* links checked in the run (bounded by MaxLinks)
    call_src_dir,      \* resolve_candidate's first argument, called on its own
    raw,               \* group(2) of the last link, or the last target given
    l_target,          \* target: raw, stripped
    skipped,           \* the last link was external or an anchor
    candidates, exists, resolved_existing,
    link_exit,         \* what main returns (-1: not returned yet)
    \* docs_filename_check.py
    npc,               \* position of find_violations / main
    name_root_ok,      \* docs_root.exists() and docs_root.is_dir()
    verbose,           \* find_violations' second argument
    visited,           \* the files rglob has yielded so far
    violations,        \* the mapping path -> list of messages
    n_rel,             \* the parts of the file analyze_file was last given
    issues,            \* what analyze_file returned for it
    name_exit          \* what main returns (-1: not returned yet)

fenceVars == <<pc, root_is_dir, fidx, results, in_block, block_fence_char,
               block_fence_seq, block_open_line, lineno, lines, nread, exit_code>>

linkVars == <<dirs, files, lpc, sidx, broken, nlinks, call_src_dir, raw, l_target, skipped,
              candidates, exists, resolved_existing, link_exit>>

nameVars == <<npc, name_root_ok, verbose, visited, violations, n_rel, issues, name_exit>>

vars == <<fenceVars, linkVars, nameVars>>

(***************************************************************************)
(* Strings                                                                 *)
(***************************************************************************)
At(s, i) == SubSeq(s, i, i)

UpperChars == "ABCDEFGHIJKLMNOPQRSTUVWXYZ"
LowerChars == "abcdefghijklmnopqrstuvwxyz"
UpperSet == {At(UpperChars, i) : i \in 1..Len(UpperChars)}
LowerOf == [c \in UpperSet |->
               At(LowerChars, CHOOSE i \in 1..Len(UpperChars) : At(UpperChars, i) = c)]

\* str.isupper() of one character
IsUpper(c) == c \in UpperSet

LowerChar(c) == IF c \in UpperSet THEN LowerOf[c] ELSE c

\* str.lower()
RECURSIVE Lower(_)
Lower(s) == IF s = "" THEN "" ELSE LowerChar(At(s, 1)) \o Lower(Tail(s))

\* the characters \s and str.strip() take for whitespace
IsSpace(c) == c \in {" ", "\t"}

RECURSIVE LStrip(_)
LStrip(s) == IF s # "" /\ IsSpace(At(s, 1)) THEN LStrip(Tail(s)) ELSE s

RECURSIVE RStrip(_)
RStrip(s) ==
    IF s # "" /\ IsSpace(At(s, Len(s))) THEN RStrip(SubSeq(s, 1, Len(s) - 1)) ELSE s

\* str.strip()
Strip(s) == RStrip(LStrip(s))

\* str.startswith / str.endswith
StartsWith(s, p) == Len(s) >= Len(p) /\ SubSeq(s, 1, Len(p)) = p
EndsWith(s, p) == Len(s) >= Len(p) /\ SubSeq(s, Len(s) - Len(p) + 1, Len(s)) = p

\* s.find(c, i) for a one-character c: the first index from i on, 0 when absent
RECURSIVE FindFrom(_, _, _)
FindFrom(s, c, i) ==
    IF i > Len(s) THEN 0 ELSE IF At(s, i) = c THEN i ELSE FindFrom(s, c, i + 1)

Find(s, c) == FindFrom(s, c, 1)

\* "c in s" for a one-character c
HasChar(s, c) == Find(s, c) # 0

\* s.rfind(c): the last index, 0 when absent
RECURSIVE RFindFrom(_, _, _)
RFindFrom(s, c, i) ==
    IF i = 0 THEN 0 ELSE IF At(s, i) = c THEN i ELSE RFindFrom(s, c, i - 1)

RFind(s, c) == RFindFrom(s, c, Len(s))

(***************************************************************************)
(* code_fence_check.py                                                     *)
(***************************************************************************)

\* _FENCE_RE, ^\s*([BT~]{3,})(.*)$ with BT the backtick: the repetitions it asks for
MinFenceLen == 3

\* A TLA+ string cannot hold a backtick: the apostrophe stands for it, in the
\* lines of the files and in the fence characters alike.
BT == "'"
FenceChars == {BT, "~"}

\* the length of the longest prefix of s made of backticks and tildes
RECURSIVE FenceRunLen(_)
FenceRunLen(s) ==
    IF s # "" /\ At(s, 1) \in FenceChars THEN 1 + FenceRunLen(Tail(s)) ELSE 0

\* _FENCE_RE.match(line): \s* takes the leading whitespace, [BT~]{3,} the
\* longest run of backticks and tildes (in any mixture), (.*) the rest.
FenceMatches(line) == FenceRunLen(LStrip(line)) >= MinFenceLen

\* m.group(1)
FenceSeq(line) == SubSeq(LStrip(line), 1, FenceRunLen(LStrip(line)))

\* fence_seq[0]
FenceChar_Last(line) == At(FenceSeq(line), Len(FenceSeq(line)))
FenceChar(line) == At(FenceSeq(line), 1)

\* m.group(2).strip()
FenceRest(line) ==
    Strip(SubSeq(LStrip(line), FenceRunLen(LStrip(line)) + 1, Len(LStrip(line))))

\* the test of line 88
MissingTag_Inverted(rest) == rest # ""
MissingTag(rest) == rest = ""

\* the test of line 100
ClosesBlock_AnyFence(fence_char, open_char) == TRUE
ClosesBlock(fence_char, open_char) == fence_char = open_char

\* the two messages with line number 0 and the unclosed-block message
BinaryMsg == "<binary-or-non-utf8-file>"
ReadErrorMsg == "<error reading file: e>"
UnclosedMsg(n) == "<unclosed code block opened at line " \o ToString(n) \o ">"

\* the line number the unclosed-block entry is reported with (line 112)
UnclosedLine_LastLine(open_line, last_line) == last_line
UnclosedLine(open_line, last_line) == open_line

\* the entry of an untagged opening fence (lines 89-91)
MissingTagEntry_FromZero(n, line) == <<n - 1, line>>
MissingTagEntry(n, line) == <<n, line>>

\* the walk: the file names os.walk yields, in its order
docs_root == "docs"
Filenames == <<"notes.txt", "a.md", "B.MD">>
Extensions == <<".md">>

\* lines 66-67: any(lower.endswith(ext) for ext in extensions)
ExtensionMatches(fname) ==
    LET lower == Lower(fname)
    IN \E i \in 1..Len(Extensions) : EndsWith(lower, Extensions[i])

\* os.path.join(dirpath, fname), all files lying in the root itself
PathOf(fname) == docs_root \o "/" \o fname

CurPath == PathOf(Filenames[fidx])

\* results.setdefault(path, []).append(entry)
SetDefaultAppend(res, path, entry) ==
    IF path \in DOMAIN res
    THEN [res EXCEPT ![path] = Append(@, entry)]
    ELSE res @@ (path :> <<entry>>)

\* the list of a path, empty when the path has no entry
EntriesOf(res, path) == IF path \in DOMAIN res THEN res[path] ELSE <<>>

EmptyResults == [p \in {} |-> <<>>]

\* the lines a file may hold
FenceLines == {"x", "before", "'''", "'''x", "''''", "~~~", "~~~x", "''' ",
               " '''", "''", "'~'", "'''~"}

\* bound: lines read in one run
MaxLines == 4

FenceInit ==
    /\ pc = "start"
    /\ root_is_dir \in BOOLEAN
    /\ fidx = 0
    /\ results = EmptyResults
    /\ in_block = FALSE
    /\ block_fence_char = ""
    /\ block_fence_seq = ""
    /\ block_open_line = 0
    /\ lineno = 0
    /\ lines = <<>>
    /\ nread = 0
    /\ exit_code = -1

\* lines 59-62, and main's lines 161-163 when the root is no directory
ScanStart ==
    /\ UNCHANGED <<linkVars, nameVars>>
    /\ pc = "start"
    /\ IF root_is_dir
       THEN pc' = "walk" /\ exit_code' = exit_code
       ELSE pc' = "done" /\ exit_code' = 2
    /\ UNCHANGED <<root_is_dir, fidx, results, in_block, block_fence_char,
                   block_fence_seq, block_open_line, lineno, lines, nread>>

AtLoopHead == pc \in {"walk", "eof", "decode_error", "read_error"}

\* lines 65-76: the next file name; a file of another extension is skipped,
\* a matching file is opened and the scanner state initialised
NextFile ==
    /\ UNCHANGED <<linkVars, nameVars>>
    /\ AtLoopHead
    /\ fidx < Len(Filenames)
    /\ fidx' = fidx + 1
    /\ IF ExtensionMatches(Filenames[fidx + 1])
       THEN /\ pc' = "scan"
            /\ in_block' = FALSE
            /\ block_fence_char' = ""
            /\ block_fence_seq' = ""
            /\ block_open_line' = 0
            /\ lineno' = 0
            /\ lines' = <<>>
       ELSE /\ pc' = "walk"
            /\ UNCHANGED <<in_block, block_fence_char, block_fence_seq,
                           block_open_line, lineno, lines>>
    /\ UNCHANGED <<root_is_dir, results, nread, exit_code>>

\* lines 78-107: one line of the file
ReadLine(line) ==
    /\ UNCHANGED <<linkVars, nameVars>>
    /\ pc = "scan"
    /\ nread < MaxLines
    /\ nread' = nread + 1
    /\ lineno' = lineno + 1
    /\ lines' = Append(lines, line)
    /\ IF FenceMatches(line)
       THEN IF ~in_block
            THEN /\ results' = IF MissingTag(FenceRest(line))
                               THEN SetDefaultAppend(results, CurPath,
                                        MissingTagEntry(lineno + 1, line))
                               ELSE results
                 /\ in_block' = TRUE
                 /\ block_fence_char' = FenceChar(line)
                 /\ block_fence_seq' = FenceSeq(line)
                 /\ block_open_line' = lineno + 1
            ELSE IF ClosesBlock(FenceChar(line), block_fence_char)
                 THEN /\ in_block' = FALSE
                      /\ block_fence_char' = ""
                      /\ block_fence_seq' = ""
                      /\ block_open_line' = 0
                      /\ results' = results
                 ELSE UNCHANGED <<results, in_block, block_fence_char,
                                  block_fence_seq, block_open_line>>
       ELSE UNCHANGED <<results, in_block, block_fence_char,
                        block_fence_seq, block_open_line>>
    /\ UNCHANGED <<pc, root_is_dir, fidx, exit_code>>

\* lines 108-112: the file ends
EndOfFile ==
    /\ UNCHANGED <<linkVars, nameVars>>
    /\ pc = "scan"
    /\ pc' = "eof"
    /\ results' = IF in_block
                  THEN SetDefaultAppend(results, CurPath,
                           <<UnclosedLine(block_open_line, lineno),
                             UnclosedMsg(block_open_line)>>)
                  ELSE results
    /\ UNCHANGED <<root_is_dir, fidx, in_block, block_fence_char, block_fence_seq,
                   block_open_line, lineno, lines, nread, exit_code>>

\* lines 113-114: the text layer decodes the file a buffer at a time, so the
\* UnicodeDecodeError is raised by the read of any line, the first or a later one
DecodeError ==
    /\ UNCHANGED <<linkVars, nameVars>>
    /\ pc = "scan"
    /\ pc' = "decode_error"
    /\ results' = SetDefaultAppend(results, CurPath, <<0, BinaryMsg>>)
    /\ UNCHANGED <<root_is_dir, fidx, in_block, block_fence_char, block_fence_seq,
                   block_open_line, lineno, lines, nread, exit_code>>

\* lines 115-116: any other exception; the model raises it where it is most
\* likely, in open() (a file that may not be read), before the first line
ReadError ==
    /\ UNCHANGED <<linkVars, nameVars>>
    /\ pc = "scan"
    /\ lineno = 0
    /\ pc' = "read_error"
    /\ results' = SetDefaultAppend(results, CurPath, <<0, ReadErrorMsg>>)
    /\ UNCHANGED <<root_is_dir, fidx, in_block, block_fence_char, block_fence_seq,
                   block_open_line, lineno, lines, nread, exit_code>>

\* line 117 and main's lines 168-173: the scan returns, its locals are gone,
\* and main maps the result to the exit code
ScanReturn ==
    /\ UNCHANGED <<linkVars, nameVars>>
    /\ AtLoopHead
    /\ fidx = Len(Filenames)
    /\ pc' = "done"
    /\ exit_code' = IF DOMAIN results # {} THEN 1 ELSE 0
    /\ in_block' = FALSE
    /\ block_fence_char' = ""
    /\ block_fence_seq' = ""
    /\ block_open_line' = 0
    /\ lineno' = 0
    /\ lines' = <<>>
    /\ UNCHANGED <<root_is_dir, fidx, results, nread>>

FenceNext ==
    \/ ScanStart
    \/ NextFile
    \/ \E line \in FenceLines : ReadLine(line)
    \/ EndOfFile
    \/ DecodeError
    \/ ReadError
    \/ ScanReturn


(***************************************************************************)
(* The fence scanner's claims.  A file is described by the lines read:    *)
(* OpenAfter(ls) is the line of the fence that opened the block still     *)
(* open after ls (0: none), Openings(ls) the fence lines met outside a    *)
(* block.                                                                  *)
(***************************************************************************)
RECURSIVE OpenFrom(_, _, _)
OpenFrom(ls, i, open) ==
    IF i > Len(ls) THEN open
    ELSE IF ~FenceMatches(ls[i]) THEN OpenFrom(ls, i + 1, open)
    ELSE IF open = 0 THEN OpenFrom(ls, i + 1, i)
    ELSE IF FenceChar(ls[i]) = FenceChar(ls[open]) THEN OpenFrom(ls, i + 1, 0)
    ELSE OpenFrom(ls, i + 1, open)

OpenAfter(ls) == OpenFrom(ls, 1, 0)

Openings(ls) ==
    {i \in 1..Len(ls) : FenceMatches(ls[i]) /\ OpenAfter(SubSeq(ls, 1, i - 1)) = 0}

IsUnclosedEntry(e) == \E n \in 0..MaxLines + 1 : e[2] = UnclosedMsg(n)

\* C1: a file whose fence lines met outside a block all carry a tag and whose
\* blocks are all closed by a fence line of the same fence character (of any
\* length) has no entry in the result map once it is scanned to its end.
C1_CleanFileNoEntry ==
    (/\ pc = "eof"
     /\ OpenAfter(lines) = 0
     /\ \A i \in Openings(lines) : FenceRest(lines[i]) # "")
    => CurPath \notin DOMAIN results

\* three backticks with a tag, closed by four backticks
C1_Witness ==
    /\ pc = "eof"
    /\ lines = <<"'''x", "x", "''''">>
    /\ CurPath \notin DOMAIN results

\* C2: inside a block a fence line of the other fence character changes
\* nothing, and a block opened with backticks and followed only by tilde fence
\* lines is open at the end of the file and reported unclosed.
C2_OtherCharStep ==
    (/\ pc = "scan" /\ pc' = "scan" /\ lineno' = lineno + 1
     /\ in_block
     /\ FenceMatches(lines'[lineno'])
     /\ FenceChar(lines'[lineno']) # block_fence_char)
    => /\ in_block' = in_block
       /\ block_fence_char' = block_fence_char
       /\ block_open_line' = block_open_line
       /\ results' = results

C2_TildeOnlyUnclosed ==
    (/\ pc = "eof"
     /\ Len(lines) >= 1
     /\ FenceMatches(lines[1]) /\ FenceChar(lines[1]) = BT
     /\ \A i \in 2..Len(lines) : FenceMatches(lines[i]) /\ FenceChar(lines[i]) = "~")
    => /\ in_block
       /\ block_open_line = 1
       /\ EntriesOf(results, CurPath) # <<>>
       /\ EntriesOf(results, CurPath)[Len(EntriesOf(results, CurPath))]
              = <<1, UnclosedMsg(1)>>

C2_OtherCharIsLiteral == [][C2_OtherCharStep]_vars /\ []C2_TildeOnlyUnclosed

C2_Witness ==
    /\ pc = "eof"
    /\ lines = <<"'''x", "~~~", "~~~x">>
    /\ results[CurPath] = << <<1, UnclosedMsg(1)>> >>

\* C3: an untagged fence line met outside a block adds exactly one entry, with
\* its line number and text, and the block is entered; lines read inside a
\* block, the closing fence included, add nothing.  The file before / fence /
\* x / fence has the single entry of line 2, and the exit code is 1.
C3_UntaggedStep ==
    (pc = "scan" /\ pc' = "scan" /\ lineno' = lineno + 1)
    => /\ (~in_block /\ FenceMatches(lines'[lineno']) /\ FenceRest(lines'[lineno']) = "")
          => /\ EntriesOf(results', CurPath)
                  = Append(EntriesOf(results, CurPath), <<lineno', lines'[lineno']>>)
             /\ in_block'
       /\ in_block => results' = results

C3_Example ==
    /\ (pc = "eof" /\ lines = <<"before", "'''", "x", "'''">>)
          => (~in_block /\ EntriesOf(results, CurPath) = << <<2, "'''">> >>)
    /\ (pc = "done" /\ EntriesOf(results, PathOf("a.md")) = << <<2, "'''">> >>)
          => exit_code = 1

C3_UntaggedOpening == [][C3_UntaggedStep]_vars /\ []C3_Example

C3_Witness ==
    /\ pc = "eof"
    /\ lines = <<"before", "'''", "x", "'''">>
    /\ results[CurPath] = << <<2, "'''">> >>

\* C4: at the end of a file an unclosed-block entry is added if and only if
\* the scanner is inside a block; there is one, it is the last entry of the
\* file, and its line number is the line of the fence that opened the block
\* still open.
C4_Unclosed ==
    LET es == EntriesOf(results, CurPath)
        unclosed == {i \in 1..Len(es) : IsUnclosedEntry(es[i])}
        k == OpenAfter(lines)
    IN /\ in_block <=> unclosed # {}
       /\ in_block <=> k > 0
       /\ in_block => /\ unclosed = {Len(es)}
                      /\ es[Len(es)] = <<k, UnclosedMsg(k)>>
                      /\ FenceMatches(lines[k])
                      /\ \A j \in (k + 1)..Len(lines) :
                            ~(FenceMatches(lines[j]) /\ FenceChar(lines[j]) = FenceChar(lines[k]))

\* C4 as amended: the line number is the opening line, which is the last line
\* of the file only when the opening fence is itself the last line.
C4_UnclosedAtOpeningLine ==
    pc = "eof" =>
        /\ C4_Unclosed
        /\ (in_block /\ EntriesOf(results, CurPath)[Len(EntriesOf(results, CurPath))][1] = Len(lines))
              => OpenAfter(lines) = Len(lines)

\* C4 as stated: the same, and the line number is never the last line of the file.
C4_NeverLastLine ==
    pc = "eof" =>
        /\ C4_Unclosed
        /\ in_block => EntriesOf(results, CurPath)[Len(EntriesOf(results, CurPath))][1] # Len(lines)

C4_Witness ==
    /\ pc = "eof"
    /\ lines = <<"'''", "x", "~~~">>
    /\ results[CurPath] = << <<1, "'''">>, <<1, UnclosedMsg(1)>> >>

\* C5: a file that fails to decode has exactly one entry, the entry of line 0
\* with the binary/non-UTF-8 message, and no line-level entry with it.
C5_SingleFileLevelEntry ==
    pc = "decode_error" => EntriesOf(results, CurPath) = << <<0, BinaryMsg>> >>
\* the run of identical characters a line begins with after its leading
\* whitespace, and what follows it
RECURSIVE SameRunLen(_, _)
SameRunLen(s, c) == IF s # "" /\ At(s, 1) = c THEN 1 + SameRunLen(Tail(s), c) ELSE 0
IdenticalRunLen(line) ==
    IF LStrip(line) = "" THEN 0 ELSE SameRunLen(LStrip(line), At(LStrip(line), 1))
IdenticalRunFence(line) ==
    /\ LStrip(line) # ""
    /\ At(LStrip(line), 1) \in FenceChars
    /\ IdenticalRunLen(line) >= MinFenceLen
IdenticalRunRest(line) ==
    Strip(SubSeq(LStrip(line), IdenticalRunLen(line) + 1, Len(LStrip(line))))

LineRead == pc = "scan" /\ lineno' = lineno + 1
LastLine == lines'[lineno']

\* C15 as stated: a line is a fence line if and only if, after its leading
\* whitespace, it begins with three or more identical characters, backticks
\* or tildes, the trailing content being what follows that run: outside a
\* block exactly such a line opens a block, and adds an entry exactly when its
\* trailing content is empty; inside a block exactly such a line of the
\* opening character closes it.
C15_IdenticalRunStep ==
    LineRead =>
        /\ ~in_block =>
              /\ in_block' <=> IdenticalRunFence(LastLine)
              /\ results' # results <=>
                    (IdenticalRunFence(LastLine) /\ IdenticalRunRest(LastLine) = "")
        /\ in_block =>
              (~in_block' <=> (/\ IdenticalRunFence(LastLine)
                               /\ At(LStrip(LastLine), 1) = block_fence_char))

C15_IdenticalRun == [][C15_IdenticalRunStep]_vars

\* C16: while a file is scanned, in_block is false exactly when the recorded
\* fence character is empty and the recorded opening line is 0; when in_block
\* is true the recorded fence character is a backtick or a tilde and the
\* recorded opening line lies between 1 and the current line and holds a
\* fence line that begins with that character.  The entries recorded for the
\* file while it is scanned are never more than the blocks opened in it.
Scanning == pc \in {"scan", "eof", "decode_error"}

C16_ScannerInvariant ==
    /\ Scanning =>
          /\ ~in_block <=> (block_fence_char = "" /\ block_open_line = 0)
          /\ in_block =>
                /\ block_fence_char \in FenceChars
                /\ block_open_line \in 1..lineno
                /\ FenceMatches(lines[block_open_line])
                /\ At(LStrip(lines[block_open_line]), 1) = block_fence_char
    /\ pc = "scan" =>
          Len(EntriesOf(results, CurPath)) <= Cardinality(Openings(lines))

\* a tilde block opened without a tag at line 2, a backtick fence met inside
C16_Witness ==
    /\ pc = "scan"
    /\ lines = <<"x", "~~~", "'''">>
    /\ in_block
    /\ block_fence_char = "~"
    /\ block_open_line = 2
    /\ lineno = 3
    /\ Len(EntriesOf(results, CurPath)) = 1


(***************************************************************************)
(* doc_link_check.py                                                       *)
(***************************************************************************)

\* str.split(sep): the parts of s between the occurrences of the character c
RECURSIVE Split(_, _)
Split(s, c) ==
    LET i == Find(s, c)
    IN IF i = 0 THEN <<s>>
       ELSE <<SubSeq(s, 1, i - 1)>> \o Split(SubSeq(s, i + 1, Len(s)), c)

\* sep.join(comps)
RECURSIVE JoinWith(_, _)
JoinWith(comps, c) ==
    IF comps = <<>> THEN ""
    ELSE IF Len(comps) = 1 THEN comps[1]
    ELSE comps[1] \o c \o JoinWith(Tail(comps), c)

\* str.lstrip(c) and str.rstrip(c) for one character
RECURSIVE LStripChar(_, _)
LStripChar(s, c) == IF s # "" /\ At(s, 1) = c THEN LStripChar(Tail(s), c) ELSE s

RECURSIVE RStripChar(_, _)
RStripChar(s, c) ==
    IF s # "" /\ At(s, Len(s)) = c THEN RStripChar(SubSeq(s, 1, Len(s) - 1), c) ELSE s

\* posixpath.normpath: the loop over the components
RECURSIVE NormComps(_, _, _)
NormComps(comps, acc, rooted) ==
    IF comps = <<>> THEN acc
    ELSE LET comp == Head(comps) IN
         IF comp \in {"", "."} THEN NormComps(Tail(comps), acc, rooted)
         ELSE IF \/ comp # ".."
                 \/ (~rooted /\ acc = <<>>)
                 \/ (acc # <<>> /\ acc[Len(acc)] = "..")
              THEN NormComps(Tail(comps), Append(acc, comp), rooted)
         ELSE IF acc # <<>>
              THEN NormComps(Tail(comps), SubSeq(acc, 1, Len(acc) - 1), rooted)
         ELSE NormComps(Tail(comps), acc, rooted)

\* posixpath.normpath
NormPath(path) ==
    IF path = "" THEN "."
    ELSE LET slashes == IF ~StartsWith(path, "/") THEN ""
                        ELSE IF StartsWith(path, "//") /\ ~StartsWith(path, "///") THEN "//"
                        ELSE "/"
             p == slashes \o JoinWith(NormComps(Split(path, "/"), <<>>, slashes # ""), "/")
         IN IF p = "" THEN "." ELSE p

\* posixpath.join(a, b)
Join(a, b) ==
    IF StartsWith(b, "/") THEN b
    ELSE IF a = "" \/ EndsWith(a, "/") THEN a \o b
    ELSE a \o "/" \o b

\* posixpath.dirname
Dirname(p) ==
    LET head == SubSeq(p, 1, RFind(p, "/"))
    IN IF head # "" /\ LStripChar(head, "/") # "" THEN RStripChar(head, "/") ELSE head

\* genericpath._splitext: the index of the dot that starts the extension, 0
\* when there is none (a dot not after the last slash, or only leading dots)
ExtDot(p) ==
    LET sep == RFind(p, "/")
        dot == RFind(p, ".")
    IN IF dot > sep /\ (\E k \in (sep + 1)..(dot - 1) : At(p, k) # ".") THEN dot ELSE 0

\* os.path.splitext(p)[1]
SplitExt(p) == IF ExtDot(p) = 0 THEN "" ELSE SubSeq(p, ExtDot(p), Len(p))

EXTERNAL_SCHEMES == <<"http://", "https://", "mailto:", "tel:", "ftp://", "data:">>

\* is_external_link (lines 32-34)
is_external_link(target) ==
    LET t == Lower(Strip(target))
    IN \E i \in 1..Len(EXTERNAL_SCHEMES) : StartsWith(t, EXTERNAL_SCHEMES[i])

\* target.split(c, 1)[0]
BeforeChar(s, c) == LET i == Find(s, c) IN IF i = 0 THEN s ELSE SubSeq(s, 1, i - 1)

\* normalize_target_path (lines 37-43)
normalize_target_path(target) == BeforeChar(BeforeChar(target, "#"), "?")

\* The file system: the directories and the files that exist, by their
\* normalized absolute paths (no symbolic links).
\* os.path.isdir and os.path.exists
isdir(c) == c \in dirs
path_exists(c) == c \in dirs \cup files

\* the guard of line 63
IsAnchor_Never(t) == FALSE
IsAnchor(t) == StartsWith(t, "#")

\* lines 69-75: the base candidate
BaseCandidate(src_dir, t, repo_docs_root) ==
    IF StartsWith(t, "/")
    THEN NormPath(Join(Dirname(repo_docs_root), LStripChar(t, "/")))
    ELSE NormPath(Join(src_dir, t))

\* lines 78-80: README.md inside each candidate that is a directory
ReadmeOf(c) == Join(c, "README.md")
WithReadme_IfExists(cands) ==
    cands \o (IF path_exists(cands[1]) THEN <<ReadmeOf(cands[1])>> ELSE <<>>)
WithReadme(cands) ==
    cands \o (IF isdir(cands[1]) THEN <<ReadmeOf(cands[1])>> ELSE <<>>)

\* lines 85-88: a candidate without extension is preceded by its variants
ExtensionVariants_BaseFirst(c) ==
    <<c>> \o (IF SplitExt(c) = "" THEN <<c \o ".md", c \o ".yaml", c \o ".json">> ELSE <<>>)
ExtensionVariants(c) ==
    (IF SplitExt(c) = "" THEN <<c \o ".md", c \o ".yaml", c \o ".json">> ELSE <<>>) \o <<c>>

RECURSIVE WithExtensions(_)
WithExtensions(cands) ==
    IF cands = <<>> THEN <<>>
    ELSE ExtensionVariants(Head(cands)) \o WithExtensions(Tail(cands))

\* list(dict.fromkeys(...)): the first occurrence of each element, in order
RECURSIVE Dedup(_, _)
Dedup(cands, seen) ==
    IF cands = <<>> THEN <<>>
    ELSE IF Head(cands) \in seen THEN Dedup(Tail(cands), seen)
    ELSE <<Head(cands)>> \o Dedup(Tail(cands), seen \cup {Head(cands)})

\* resolve_candidate (lines 46-91)
resolve_candidate(src_dir, target, repo_docs_root) ==
    LET t == Strip(target) IN
    IF t = "" THEN <<>>
    ELSE IF IsAnchor(t) THEN <<>>
    ELSE Dedup(WithExtensions(WithReadme(
             <<BaseCandidate(src_dir, normalize_target_path(t), repo_docs_root)>>)), {})

\* lines 124-130: the first candidate that exists, "" when none does
FirstExisting_OnlyFirst(cands) ==
    IF cands # <<>> /\ path_exists(Head(cands)) THEN Head(cands) ELSE ""

RECURSIVE FirstExisting(_)
FirstExisting(cands) ==
    IF cands = <<>> THEN ""
    ELSE IF path_exists(Head(cands)) THEN Head(cands)
    ELSE FirstExisting(Tail(cands))

\* the tree: the root given to find_broken_links (main makes it absolute),
\* and the files os.walk yields, each with its directory
link_docs_root == "/r/docs"
SourceFiles == << [dirpath |-> "/r/docs", name |-> "logo.png"],
                 [dirpath |-> "/r/docs/sub", name |-> "page.md"] >>

\* what the tree always holds, and what it may hold
BaseDirs == {"/r", "/r/docs", "/r/docs/sub"}
BaseFiles == {"/r/docs/logo.png", "/r/docs/sub/page.md"}
GuideDir == "/r/docs/sub/guide"
GuideReadme == "/r/docs/sub/guide/README.md"
OptionalFiles == {"/r/docs/sub/a.md", "/r/docs/sub/a?b.md", "/r/docs/a.md",
                  "/r/docs/sub/guide.md"}

\* group(2) of LINK_RE for the links a file may hold
LinkTargets == {"a.md", " a.md ", "../a.md", "a?b.md", "a.md#sec", "guide", "guide/",
                "guide/README.md", "missing.md", "/docs/a.md",
                "http://h", "HTTPS://h", "#top", " "}

\* the targets resolve_candidate is given when called on its own
Targets == LinkTargets \cup {"mailto:m", "tel:1", "ftp://h", "data:d"}

link_text == "t"

\* bound: links checked in one run
MaxLinks == 2

NoLink ==
    /\ raw = ""
    /\ l_target = ""
    /\ skipped = FALSE
    /\ candidates = <<>>
    /\ exists = FALSE
    /\ resolved_existing = ""

FsInit ==
    /\ \E g \in {{}, {GuideDir}} : dirs = BaseDirs \cup g
    /\ \E o \in SUBSET OptionalFiles :
          \E r \in (IF GuideDir \in dirs THEN {{}, {GuideReadme}} ELSE {{}}) :
              files = BaseFiles \cup o \cup r

LinkInit ==
    /\ FsInit
    /\ lpc = "walk"
    /\ sidx = 0
    /\ broken = <<>>
    /\ nlinks = 0
    /\ link_exit = -1
    /\ NoLink

LinkAtLoopHead == lpc \in {"walk", "links"}

CurSource == SourceFiles[sidx]
full_path == Join(CurSource.dirpath, CurSource.name)

\* lines 102-113: the next file of the walk; a name that does not end in
\* .md is skipped, the text of the others is read
LinkNextFile ==
    /\ UNCHANGED <<call_src_dir, fenceVars, nameVars>>
    /\ LinkAtLoopHead
    /\ sidx < Len(SourceFiles)
    /\ sidx' = sidx + 1
    /\ lpc' = IF EndsWith(SourceFiles[sidx + 1].name, ".md") THEN "links" ELSE "walk"
    /\ raw' = "" /\ l_target' = "" /\ skipped' = FALSE /\ candidates' = <<>>
    /\ exists' = FALSE /\ resolved_existing' = ""
    /\ UNCHANGED <<dirs, files, broken, nlinks, link_exit>>

\* lines 115-135: one link of the text
CheckLink(m) ==
    /\ UNCHANGED <<call_src_dir, fenceVars, nameVars>>
    /\ lpc = "links"
    /\ nlinks < MaxLinks
    /\ nlinks' = nlinks + 1
    /\ raw' = m
    /\ l_target' = Strip(m)
    /\ IF is_external_link(Strip(m)) \/ StartsWith(Strip(m), "#")
       THEN /\ skipped' = TRUE
            /\ candidates' = <<>>
            /\ exists' = FALSE
            /\ resolved_existing' = ""
            /\ broken' = broken
       ELSE LET cands == resolve_candidate(CurSource.dirpath, Strip(m), link_docs_root)
                found == FirstExisting(cands)
            IN /\ skipped' = FALSE
               /\ candidates' = cands
               /\ exists' = (found # "")
               /\ resolved_existing' = found
               /\ broken' = IF found # "" THEN broken
                            ELSE Append(broken,
                                   <<full_path, link_text, Strip(m),
                                     IF cands # <<>> THEN cands[1] ELSE Strip(m)>>)
    /\ UNCHANGED <<dirs, files, lpc, sidx, link_exit>>

\* line 137 and main's lines 159-168
LinkReturn ==
    /\ UNCHANGED <<call_src_dir, fenceVars, nameVars>>
    /\ LinkAtLoopHead
    /\ sidx = Len(SourceFiles)
    /\ lpc' = "done"
    /\ link_exit' = IF broken # <<>> THEN 1 ELSE 0
    /\ raw' = "" /\ l_target' = "" /\ skipped' = FALSE /\ candidates' = <<>>
    /\ exists' = FALSE /\ resolved_existing' = ""
    /\ UNCHANGED <<dirs, files, sidx, broken, nlinks>>

LinkNext ==
    \/ LinkNextFile
    \/ \E m \in LinkTargets : CheckLink(m)
    \/ LinkReturn

\* resolve_candidate called on its own, with any target
SourceDirs == {"/r/docs", "/r/docs/sub"}

ResolveInit ==
    /\ FsInit
    /\ lpc = "idle"
    /\ sidx = 0
    /\ broken = <<>>
    /\ nlinks = 0
    /\ link_exit = -1
    /\ call_src_dir = ""
    /\ NoLink

ResolveCall(d, m) ==
    /\ UNCHANGED <<fenceVars, nameVars>>
    /\ lpc \in {"idle", "resolved"}
    /\ lpc' = "resolved"
    /\ call_src_dir' = d
    /\ raw' = m
    /\ l_target' = Strip(m)
    /\ candidates' = resolve_candidate(d, m, link_docs_root)
    /\ UNCHANGED <<dirs, files, sidx, broken, nlinks, link_exit, skipped, exists,
                   resolved_existing>>

ResolveNext == \E d \in SourceDirs : \E m \in Targets : ResolveCall(d, m)


(***************************************************************************)
(* The link checker's claims.  PointsTo gives, for the relative targets   *)
(* without scheme and fragment met in /r/docs/sub/page.md, the path the   *)
(* target denotes from that file's directory.                             *)
(***************************************************************************)
PointsTo ==
    [t \in {"a.md", "../a.md", "a?b.md", "guide", "guide/", "guide/README.md", "missing.md"} |->
        CASE t = "a.md" -> "/r/docs/sub/a.md"
          [] t = "../a.md" -> "/r/docs/a.md"
          [] t = "a?b.md" -> "/r/docs/sub/a?b.md"
          [] t = "guide" -> "/r/docs/sub/guide"
          [] t = "guide/" -> "/r/docs/sub/guide"
          [] t = "guide/README.md" -> "/r/docs/sub/guide/README.md"
          [] t = "missing.md" -> "/r/docs/sub/missing.md"]

OnDisk(p) == p \in dirs \cup files

\* a step of find_broken_links that checks a link, and whether it reports it
LinkChecked == lpc = "links" /\ nlinks' = nlinks + 1
Reported == broken' # broken

C6_BrokenIffNoCandidate ==
    LinkChecked =>
        /\ skipped' => ~Reported
        /\ ~skipped' =>
              (Reported <=> \A i \in 1..Len(candidates') : ~OnDisk(candidates'[i]))

C6_Relative(targets) ==
    (LinkChecked /\ l_target' \in targets) =>
        /\ ~skipped'
        /\ \E i \in 1..Len(candidates') : candidates'[i] = PointsTo[l_target']
        /\ OnDisk(PointsTo[l_target']) => ~Reported

\* C6 as stated: a link is reported broken if and only if no candidate of its
\* list exists; the list of a relative target with no scheme and no fragment
\* holds the path the target denotes, and the link is not reported when that
\* path exists.
C6_RelativeNoFragment ==
    [][C6_BrokenIffNoCandidate /\ C6_Relative(DOMAIN PointsTo)]_vars

\* C6 as amended: the same for a relative target with no scheme, no fragment
\* and no query part (no '?').
C6_RelativeNoFragmentNoQuery ==
    [][C6_BrokenIffNoCandidate
       /\ C6_Relative({t \in DOMAIN PointsTo : ~HasChar(t, "?")})]_vars

C6_Witness ==
    /\ lpc = "links"
    /\ l_target = "../a.md"
    /\ "/r/docs/a.md" \in files
    /\ candidates = <<"/r/docs/a.md">>
    /\ exists
    /\ broken = <<>>

\* C7: a target whose base candidate is an existing directory that holds
\* README.md has <directory>/README.md in its list, is not reported broken, and
\* the candidate that is found to exist is the README.md one.
C7_ResolvedViaReadme ==
    (/\ lpc = "links"
     /\ l_target \in {"guide", "guide/"}
     /\ GuideDir \in dirs
     /\ GuideReadme \in files)
    => /\ \E i \in 1..Len(candidates) : candidates[i] = GuideReadme
       /\ exists
       /\ resolved_existing = GuideReadme

\* C8 as stated: the list is empty exactly for the targets that, trimmed, are
\* empty, start with '#' or start with an external scheme.
C8_Schemes == {"http:", "https:", "mailto:", "tel:", "ftp:", "data:"}

C8_EmptyForAnchorsAndExternal ==
    lpc = "resolved" =>
        (candidates = <<>> <=>
            \/ Strip(raw) = ""
            \/ StartsWith(Strip(raw), "#")
            \/ \E sch \in C8_Schemes : StartsWith(Lower(Strip(raw)), sch))

\* C8 as amended: the list is empty exactly for the targets that, trimmed, are
\* empty or start with '#'; it is not empty for any other target, one that
\* starts with an external scheme included.
C8_EmptyForAnchorsOnly ==
    lpc = "resolved" =>
        (candidates = <<>> <=> (Strip(raw) = "" \/ StartsWith(Strip(raw), "#")))

C8_Witness ==
    /\ lpc = "resolved"
    /\ raw = "HTTPS://h"
    /\ call_src_dir = "/r/docs/sub"
    /\ candidates = <<"/r/docs/sub/HTTPS:/h.md", "/r/docs/sub/HTTPS:/h.yaml",
                      "/r/docs/sub/HTTPS:/h.json", "/r/docs/sub/HTTPS:/h">>

\* the base candidate of the link last checked by find_broken_links (step 3:
\* the normalized target joined to the source file's directory, or to the
\* parent of the docs root when the target starts with '/')
LinkResolved == lpc = "links" /\ nlinks > 0 /\ ~skipped /\ candidates # <<>>
LinkBase == BaseCandidate(CurSource.dirpath, normalize_target_path(l_target), link_docs_root)
IndexOf(cands, c) == CHOOSE i \in 0..Len(cands) : IF i = 0 THEN \A k \in 1..Len(cands) : cands[k] # c
                                                   ELSE cands[i] = c /\ \A k \in 1..(i - 1) : cands[k] # c
LastReported == broken[Len(broken)][4]

\* C12 as stated: the variants .md, .yaml, .json of a candidate without
\* extension come after it, in that order; the first element of a non-empty
\* list is the base candidate, and it is the path reported for a broken link.
C12_BaseCandidateFirst ==
    LinkResolved =>
        /\ candidates[1] = LinkBase
        /\ SplitExt(LinkBase) = "" =>
              /\ IndexOf(candidates, LinkBase) < IndexOf(candidates, LinkBase \o ".md")
              /\ IndexOf(candidates, LinkBase \o ".md") < IndexOf(candidates, LinkBase \o ".yaml")
              /\ IndexOf(candidates, LinkBase \o ".yaml") < IndexOf(candidates, LinkBase \o ".json")
        /\ ~exists => LastReported = LinkBase

\* C12 as amended: the variants .md, .yaml, .json of a candidate without
\* extension come before it, in that order; the first element of a non-empty
\* list is the base candidate when it has an extension and the base candidate
\* with .md added when it has none, and that first element is the path
\* reported for a broken link.
C12_VariantsBeforeBase ==
    LinkResolved =>
        /\ candidates[1] = IF SplitExt(LinkBase) = "" THEN LinkBase \o ".md" ELSE LinkBase
        /\ SplitExt(LinkBase) = "" =>
              SubSeq(candidates, 1, 4) = <<LinkBase \o ".md", LinkBase \o ".yaml",
                                           LinkBase \o ".json", LinkBase>>
        /\ ~exists => LastReported = candidates[1]

C12_Witness ==
    /\ LinkResolved
    /\ l_target = "guide"
    /\ ~exists
    /\ candidates = <<"/r/docs/sub/guide.md", "/r/docs/sub/guide.yaml",
                      "/r/docs/sub/guide.json", "/r/docs/sub/guide">>
    /\ LastReported = "/r/docs/sub/guide.md"

\* the list resolve_candidate returns for its last call where no candidate is
\* a directory: it is made of the arguments alone
ResolveBase == BaseCandidate(call_src_dir, normalize_target_path(Strip(raw)), link_docs_root)
ListOfArguments ==
    IF SplitExt(ResolveBase) = ""
    THEN <<ResolveBase \o ".md", ResolveBase \o ".yaml", ResolveBase \o ".json", ResolveBase>>
    ELSE <<ResolveBase>>

\* C13 as stated: the list is a function of the three arguments alone: it is
\* the same in every state of the file system, so it is the list returned
\* where nothing is a directory.
C13_SameListInAnyFilesystem ==
    (lpc = "resolved" /\ candidates # <<>>) => candidates = ListOfArguments

\* C13 as amended: the list is a function of the three arguments and of one
\* probe of the file system, whether the base candidate is a directory
\* (os.path.isdir): when it is, <base>/README.md is added at the end of the
\* list of the arguments; the files that exist do not matter.
C13_DependsOnIsDirOnly ==
    (lpc = "resolved" /\ candidates # <<>>) =>
        candidates = ListOfArguments
                       \o (IF ResolveBase \in dirs
                           THEN <<ResolveBase \o "/README.md">> ELSE <<>>)

C13_Witness ==
    /\ lpc = "resolved"
    /\ raw = "guide"
    /\ call_src_dir = "/r/docs/sub"
    /\ GuideDir \in dirs
    /\ candidates = <<"/r/docs/sub/guide.md", "/r/docs/sub/guide.yaml",
                      "/r/docs/sub/guide.json", "/r/docs/sub/guide",
                      "/r/docs/sub/guide/README.md">>


(***************************************************************************)
(* docs_filename_check.py                                                  *)
(* A path is modelled by its parts relative to the docs root (rel.parts). *)
(***************************************************************************)
LowerSet == {At(LowerChars, i) : i \in 1..Len(LowerChars)}
DigitSet == {"0", "1", "2", "3", "4", "5", "6", "7", "8", "9"}

\* "sub in s"
Contains(s, sub) ==
    \E i \in 1..(Len(s) - Len(sub) + 1) : SubSeq(s, i, i + Len(sub) - 1) = sub

README_FILENAME == "README.md"
YML_EXT == ".yml"
YAML_EXT == ".yaml"
MD_EXT == ".md"

\* MD_BASENAME_RE = ^[a-z0-9_]+\.md$ (line 34), matched against a name
MD_BASENAME_RE_match(name) ==
    /\ EndsWith(name, ".md")
    /\ Len(name) > Len(".md")
    /\ \A i \in 1..(Len(name) - Len(".md")) : At(name, i) \in LowerSet \cup DigitSet \cup {"_"}

\* PurePath.suffix: from the last dot of the name, unless the dot is the
\* first or the last character of the name or the name has no dot
Suffix(name) ==
    LET i == RFind(name, ".")
    IN IF 1 < i /\ i < Len(name) THEN SubSeq(name, i, Len(name)) ELSE ""

\* check_path_component_case (lines 54-58)
check_path_component_case(component) ==
    \E i \in 1..Len(component) : IsUpper(At(component, i))

\* the messages
DirCaseMsg(comp) == "directory contains uppercase characters: '" \o comp \o "'"
ExtCaseMsg(ext, suffix) ==
    "extension must be lowercase '" \o ext \o "' (found '" \o suffix \o "')"
SpacesMsg == "filename contains spaces; use underscores instead"
HyphenMsg == "filename contains hyphen(s); use underscores instead"
UppercaseMsg == "filename contains uppercase letters; use lowercase only"
GenericMsg == "filename must be lowercase with underscores and contain only letters, digits, and underscores (e.g., 'my_doc_page.md')"
YmlMsg == "YAML files must use the '.yaml' extension (rename from .yml -> .yaml)"

\* lines 70-72: one message for each directory part with an uppercase character
RECURSIVE DirIssues(_)
DirIssues(parts) ==
    IF parts = <<>> THEN <<>>
    ELSE (IF check_path_component_case(Head(parts)) THEN <<DirCaseMsg(Head(parts))>> ELSE <<>>)
         \o DirIssues(Tail(parts))

\* the test of line 80 (and of line 116)
ExtensionCaseWrong_Never(suffix, ext) == FALSE
ExtensionCaseWrong(suffix, ext) == suffix # ext

\* the test of line 83
IsReadme_LowerCase(name) == name = Lower(README_FILENAME)
IsReadme(name) == name = README_FILENAME

\* lines 90-95: the diagnostics of a name that fails the pattern
Diagnostics(name) ==
    (IF HasChar(name, " ") THEN <<SpacesMsg>> ELSE <<>>)
    \o (IF HasChar(name, "-") THEN <<HyphenMsg>> ELSE <<>>)
    \o (IF \E i \in 1..Len(name) : IsUpper(At(name, i)) THEN <<UppercaseMsg>> ELSE <<>>)

\* lines 97-106: the generic message, unless a message recorded so far for the
\* file holds one of the three words
WithGeneric(issues_so_far) ==
    IF \E i \in 1..Len(issues_so_far) :
           \/ Contains(issues_so_far[i], "spaces")
           \/ Contains(issues_so_far[i], "hyphen")
           \/ Contains(issues_so_far[i], "uppercase")
    THEN issues_so_far
    ELSE Append(issues_so_far, GenericMsg)

\* analyze_file (lines 61-121), rel being path.relative_to(docs_root).parts
analyze_file(rel) ==
    LET dir_issues == DirIssues(SubSeq(rel, 1, Len(rel) - 1))
        name == rel[Len(rel)]
        suffix == Suffix(name)
    IN IF Lower(suffix) = MD_EXT
       THEN LET with_ext == dir_issues \o (IF ExtensionCaseWrong(suffix, MD_EXT)
                                           THEN <<ExtCaseMsg(MD_EXT, suffix)>> ELSE <<>>)
            IN IF IsReadme(name) THEN with_ext
               ELSE IF ~MD_BASENAME_RE_match(name)
                    THEN WithGeneric(with_ext \o Diagnostics(name))
                    ELSE with_ext
       ELSE IF Lower(suffix) = YML_EXT
       THEN Append(dir_issues, YmlMsg)
       ELSE IF Lower(suffix) = YAML_EXT
       THEN dir_issues \o (IF ExtensionCaseWrong(suffix, YAML_EXT)
                           THEN <<ExtCaseMsg(YAML_EXT, suffix)>> ELSE <<>>)
       ELSE dir_issues

\* the files the docs tree may hold: each name in each directory
NameDirs == {<<>>, <<"guides">>, <<"Guide">>, <<"api", "V2">>}
Basenames == {"README.md", "readme.md", "README.MD", "My-Doc.md", "my doc.md",
              "my_doc.md", "a+b.md", "notes.yml", "notes.yaml", "notes.YAML", "logo.png"}
NamePaths == {d \o <<b>> : d \in NameDirs, b \in Basenames}

\* bound: files of the tree
MaxFiles == 2

EmptyViolations == [p \in {} |-> <<>>]

NameInit ==
    /\ npc = "start"
    /\ name_root_ok \in BOOLEAN
    /\ verbose \in BOOLEAN
    /\ visited = {}
    /\ violations = EmptyViolations
    /\ n_rel = <<>>
    /\ issues = <<>>
    /\ name_exit = -1

\* lines 128-131, and main's lines 200-202 when the root is missing
NameStart ==
    /\ UNCHANGED <<fenceVars, linkVars>>
    /\ npc = "start"
    /\ IF name_root_ok
       THEN npc' = "walk" /\ name_exit' = name_exit
       ELSE npc' = "done" /\ name_exit' = 2
    /\ UNCHANGED <<name_root_ok, verbose, visited, violations, n_rel, issues>>

\* lines 133-148: one file of docs_root.rglob("*")
VisitFile(p) ==
    /\ UNCHANGED <<fenceVars, linkVars>>
    /\ npc = "walk"
    /\ p \notin visited
    /\ Cardinality(visited) < MaxFiles
    /\ visited' = visited \cup {p}
    /\ n_rel' = p
    /\ issues' = analyze_file(p)
    /\ violations' =
          IF Lower(Suffix(p[Len(p)])) \notin {MD_EXT, YML_EXT, YAML_EXT}
          THEN IF analyze_file(p) # <<>> /\ verbose
               THEN (p :> analyze_file(p)) @@ violations
               ELSE violations
          ELSE IF analyze_file(p) # <<>>
               THEN (p :> analyze_file(p)) @@ violations
               ELSE violations
    /\ UNCHANGED <<npc, name_root_ok, verbose, name_exit>>

\* line 150 and main's lines 207-212
NameReturn ==
    /\ UNCHANGED <<fenceVars, linkVars>>
    /\ npc = "walk"
    /\ npc' = "done"
    /\ name_exit' = IF DOMAIN violations # {} THEN 1 ELSE 0
    /\ n_rel' = <<>>
    /\ issues' = <<>>
    /\ UNCHANGED <<name_root_ok, verbose, visited, violations>>

NameNext ==
    \/ NameStart
    \/ \E p \in NamePaths : VisitFile(p)
    \/ NameReturn

(***************************************************************************)
(* The naming policy's claims                                              *)
(***************************************************************************)
Analyzed == npc = "walk" /\ n_rel # <<>>
Basename == n_rel[Len(n_rel)]
UnderRoot == Len(n_rel) = 1

\* C9 as stated: a file named README.md has no issue, in whatever directory.
C9_ReadmeNoIssue ==
    (Analyzed /\ Basename = "README.md") => issues = <<>>

\* C9 as amended: the issues of a file named README.md are the directory-case
\* messages of its directory parts that hold an uppercase character, one for
\* each, and nothing else; there is none when no directory part holds one.
C9_ReadmeOnlyDirectoryCase ==
    (Analyzed /\ Basename = "README.md") =>
        LET upper == {i \in 1..(Len(n_rel) - 1) :
                          \E k \in 1..Len(n_rel[i]) : At(n_rel[i], k) \in UpperSet}
        IN /\ Len(issues) = Cardinality(upper)
           /\ \A i \in upper : \E j \in 1..Len(issues) : issues[j] = DirCaseMsg(n_rel[i])
           /\ \A j \in 1..Len(issues) : \E i \in upper : issues[j] = DirCaseMsg(n_rel[i])

C9_Witness ==
    /\ Analyzed
    /\ n_rel = <<"guides", "README.md">>
    /\ issues = <<>>

\* C10 as stated: readme.md, README.MD, My-Doc.md, my doc.md and notes.yml,
\* placed under the root, have at least one issue each, and the issues name
\* the cause, so that the five lists differ.
C10_Names == {"readme.md", "README.MD", "My-Doc.md", "my doc.md", "notes.yml"}

C10_CauseNamed ==
    /\ Basename = "README.MD" => \E j \in 1..Len(issues) : issues[j] = ExtCaseMsg(".md", ".MD")
    /\ Basename = "My-Doc.md" => /\ \E j \in 1..Len(issues) : issues[j] = HyphenMsg
                                 /\ \E j \in 1..Len(issues) : issues[j] = UppercaseMsg
    /\ Basename = "my doc.md" => issues = <<SpacesMsg>>
    /\ Basename = "notes.yml" => issues = <<YmlMsg>>

C10_Distinct(names) ==
    \A a, b \in names : a # b => analyze_file(<<a>>) # analyze_file(<<b>>)

C10_FiveNamesFlagged ==
    (Analyzed /\ UnderRoot /\ Basename \in C10_Names) =>
        /\ issues # <<>>
        /\ C10_CauseNamed
        /\ C10_Distinct(C10_Names)

\* C10 as amended: README.MD, My-Doc.md, my doc.md and notes.yml have at least
\* one issue each, naming the cause (extension case; hyphen and uppercase;
\* space; .yml extension), and their lists differ; readme.md matches the
\* pattern and has no issue.
C10_FourNamesFlagged ==
    /\ (Analyzed /\ UnderRoot /\ Basename \in C10_Names \ {"readme.md"}) =>
          /\ issues # <<>>
          /\ C10_CauseNamed
          /\ C10_Distinct(C10_Names \ {"readme.md"})
    /\ (Analyzed /\ UnderRoot /\ Basename = "readme.md") => issues = <<>>

C10_Witness ==
    /\ Analyzed
    /\ n_rel = <<"README.MD">>
    /\ issues = <<ExtCaseMsg(".md", ".MD"), UppercaseMsg>>

\* a file that is neither Markdown nor YAML, and the directory parts of a
\* path that hold an uppercase character
OtherFile(rel) == Lower(Suffix(rel[Len(rel)])) \notin {MD_EXT, YML_EXT, YAML_EXT}
UpperDirs(rel) == {i \in 1..(Len(rel) - 1) : check_path_component_case(rel[i])}

\* C11 as stated: a file that is neither Markdown nor YAML and lies under a
\* directory whose name holds an uppercase character is in the result of
\* find_violations with a directory-case message, whatever verbose is, and
\* the run that visited it exits with code 1.
C11_OtherFileDirectoryCaseReported ==
    /\ (Analyzed /\ OtherFile(n_rel) /\ UpperDirs(n_rel) # {}) =>
          /\ n_rel \in DOMAIN violations
          /\ \A i \in UpperDirs(n_rel) :
                \E j \in 1..Len(violations[n_rel]) :
                    violations[n_rel][j] = DirCaseMsg(n_rel[i])
    /\ (npc = "done" /\ \E p \in visited : OtherFile(p) /\ UpperDirs(p) # {}) =>
          name_exit = 1

\* C14 as stated: a Markdown file that is not README.md, fails the pattern
\* and holds no space, no hyphen and no uppercase letter gets the generic
\* message, whatever was recorded for it before; so every Markdown basename
\* that fails the pattern gets at least one basename message.
BasenameMsgs == {SpacesMsg, HyphenMsg, UppercaseMsg, GenericMsg}

C14_GenericWhateverRecorded ==
    (Analyzed /\ Lower(Suffix(Basename)) = MD_EXT /\ Basename # README_FILENAME
              /\ ~MD_BASENAME_RE_match(Basename)) =>
        /\ (Diagnostics(Basename) = <<>>) =>
               \E j \in 1..Len(issues) : issues[j] = GenericMsg
        /\ \E j \in 1..Len(issues) : issues[j] \in BasenameMsgs


(***************************************************************************)
(* Specifications: one per checker, the state of the others at rest        *)
(***************************************************************************)
FenceIdle ==
    /\ pc = "idle" /\ root_is_dir = TRUE /\ fidx = 0 /\ results = EmptyResults
    /\ in_block = FALSE /\ block_fence_char = "" /\ block_fence_seq = ""
    /\ block_open_line = 0 /\ lineno = 0 /\ lines = <<>> /\ nread = 0 /\ exit_code = -1

LinkIdle ==
    /\ dirs = {} /\ files = {} /\ lpc = "idle" /\ sidx = 0 /\ broken = <<>>
    /\ nlinks = 0 /\ call_src_dir = "" /\ link_exit = -1 /\ NoLink

NameIdle ==
    /\ npc = "idle" /\ name_root_ok = TRUE /\ verbose = FALSE /\ visited = {}
    /\ violations = EmptyViolations /\ n_rel = <<>> /\ issues = <<>> /\ name_exit = -1

FenceSpecInit ==
    /\ FenceInit
    /\ LinkIdle
    /\ NameIdle

LinkSpecInit ==
    /\ LinkInit
    /\ call_src_dir = ""
    /\ FenceIdle
    /\ NameIdle

ResolveSpecInit ==
    /\ ResolveInit
    /\ FenceIdle
    /\ NameIdle

NameSpecInit ==
    /\ NameInit
    /\ FenceIdle
    /\ LinkIdle

FenceSpec == FenceSpecInit /\ [][FenceNext]_vars

LinkSpec == LinkSpecInit /\ [][LinkNext]_vars

ResolveSpec == ResolveSpecInit /\ [][ResolveNext]_vars

NameSpec == NameSpecInit /\ [][NameNext]_vars

====
